---- MODULE Spec2Model ----
(***************************************************************************)
(* Model of the MQTT snapshot viewer.  Two programs live in the            *)
(* repository: src/app.py (single-topic variant: one image slot) and       *)
(* src/frigate-viewer/app.py (multi-topic variant: one slot per            *)
(* (cam, obj), plus the /events server-push stream).                       *)
(*                                                                         *)
(* Bytes are integers 0..255, a payload is a sequence of bytes.  A topic   *)
(* is a sequence of tokens, each either the separator "/" or a word that   *)
(* holds no "/".  A timestamp is a number of clock ticks, TicksPerSecond   *)
(* ticks to the second, so that float timestamps have a fractional part.   *)
(***************************************************************************)
EXTENDS Integers, Sequences, FiniteSets, TLC

\* ------------------------------------------------------------------ bounds
\* Store writes (upserts) in one run.
MaxUpserts == 3
\* Store writes in one run with /events listeners.
MaxLiveUpserts == 2
\* Largest clock reading, in ticks.
MaxTime == 5
\* Clock resolution: ticks per second.
TicksPerSecond == 3

\* ------------------------------------------------------------- byte strings
\* candidate_bytes[:n]
Prefix(b, n) == SubSeq(b, 1, IF Len(b) < n THEN Len(b) ELSE n)

\* b"\xff\xd8\xff"
JPEG_SOI == <<255, 216, 255>>

\* x[:3] == b"\xff\xd8\xff"
LooksLikeJpeg(b) == Prefix(b, 3) = JPEG_SOI

\* ------------------------------------------------------------------ base64
\* binascii's table_a2b_base64: the 6-bit value of a base64 digit, 64 for a
\* byte that is none.
table_a2b_base64(c) ==
    IF c \in 65..90 THEN c - 65
    ELSE IF c \in 97..122 THEN c - 71
    ELSE IF c \in 48..57 THEN c + 4
    ELSE IF c = 43 THEN 62
    ELSE IF c = 47 THEN 63
    ELSE 64

BASE64_PAD == 61

B64Error == [ok |-> FALSE, bin |-> <<>>]

B64Ok(bin) == [ok |-> TRUE, bin |-> bin]

\* The loop of binascii.a2b_base64 in strict mode (what
\* base64.b64decode(s, validate=True) runs): i is the 1-based position,
\* quad_pos the position in the current group of four digits, leftchar the
\* bits left over, pads the '=' seen in this group, padding_started whether
\* any '=' was seen, bin the bytes produced so far.
RECURSIVE a2b_loop(_, _, _, _, _, _, _)
a2b_loop(s, i, quad_pos, leftchar, pads, padding_started, bin) ==
    IF i > Len(s)
    THEN IF quad_pos # 0 THEN B64Error ELSE B64Ok(bin)
    ELSE LET this_ch == s[i]
             v == table_a2b_base64(this_ch)
         IN  IF this_ch = BASE64_PAD
             THEN IF quad_pos >= 2 /\ quad_pos + pads + 1 >= 4
                  THEN IF i < Len(s) THEN B64Error ELSE B64Ok(bin)
                  ELSE a2b_loop(s, i + 1, quad_pos, leftchar,
                                IF quad_pos >= 2 THEN pads + 1 ELSE pads,
                                TRUE, bin)
             ELSE IF v >= 64 THEN B64Error
             ELSE IF padding_started THEN B64Error
             ELSE CASE quad_pos = 0 ->
                         a2b_loop(s, i + 1, 1, v, 0, FALSE, bin)
                    [] quad_pos = 1 ->
                         a2b_loop(s, i + 1, 2, v % 16, 0, FALSE,
                                  Append(bin, leftchar * 4 + v \div 16))
                    [] quad_pos = 2 ->
                         a2b_loop(s, i + 1, 3, v % 4, 0, FALSE,
                                  Append(bin, leftchar * 16 + v \div 4))
                    [] quad_pos = 3 ->
                         a2b_loop(s, i + 1, 0, 0, 0, FALSE,
                                  Append(bin, leftchar * 64 + v))

\* base64.b64decode(cand, validate=True): [ok, bin]; ok is FALSE where the
\* call raises binascii.Error.
b64decode(s) ==
    IF Len(s) > 0 /\ s[1] = BASE64_PAD
    THEN B64Error
    ELSE a2b_loop(s, 1, 0, 0, 0, FALSE, <<>>)

\* ------------------------------------------------------------------- UTF-8
\* A continuation byte.
IsCont(b, i) == i <= Len(b) /\ b[i] \in 128..191

\* candidate_bytes.decode("utf-8"): [ok, str], str the code points; ok is
\* FALSE where the call raises UnicodeDecodeError.
RECURSIVE utf8_loop(_, _, _)
utf8_loop(b, i, out) ==
    IF i > Len(b) THEN [ok |-> TRUE, str |-> out]
    ELSE LET c == b[i] IN
         IF c < 128 THEN utf8_loop(b, i + 1, Append(out, c))
         ELSE IF c \in 194..223 /\ IsCont(b, i + 1)
              THEN utf8_loop(b, i + 2,
                             Append(out, (c - 192) * 64 + (b[i + 1] - 128)))
         ELSE IF c \in 224..239 /\ IsCont(b, i + 1) /\ IsCont(b, i + 2)
                 /\ (c = 224 => b[i + 1] >= 160)
                 /\ (c = 237 => b[i + 1] <= 159)
              THEN utf8_loop(b, i + 3,
                             Append(out, (c - 224) * 4096
                                         + (b[i + 1] - 128) * 64
                                         + (b[i + 2] - 128)))
         ELSE IF c \in 240..244 /\ IsCont(b, i + 1) /\ IsCont(b, i + 2)
                 /\ IsCont(b, i + 3)
                 /\ (c = 240 => b[i + 1] >= 144)
                 /\ (c = 244 => b[i + 1] <= 143)
              THEN utf8_loop(b, i + 4,
                             Append(out, (c - 240) * 262144
                                         + (b[i + 1] - 128) * 4096
                                         + (b[i + 2] - 128) * 64
                                         + (b[i + 3] - 128)))
         ELSE [ok |-> FALSE, str |-> <<>>]

utf8_decode(b) == utf8_loop(b, 1, <<>>)

\* str.isspace() of one code point: what str.strip() removes.
IsSpace(cp) ==
    \/ cp \in 9..13
    \/ cp \in 28..32
    \/ cp \in {133, 160, 5760, 8232, 8233, 8239, 8287, 12288}
    \/ cp \in 8192..8202

RECURSIVE lstrip(_)
lstrip(s) == IF s # <<>> /\ IsSpace(Head(s)) THEN lstrip(Tail(s)) ELSE s

RECURSIVE rstrip(_)
rstrip(s) ==
    IF s # <<>> /\ IsSpace(s[Len(s)]) THEN rstrip(SubSeq(s, 1, Len(s) - 1))
    ELSE s

\* as_str.strip()
strip(s) == rstrip(lstrip(s))

\* as_str.lower(), on the letters that can lower to "h", "t" or "p".
lower(s) == [i \in 1..Len(s) |-> IF s[i] \in 65..90 THEN s[i] + 32 ELSE s[i]]

\* "http"
HTTP_PREFIX == <<104, 116, 116, 112>>

\* as_str and as_str.strip().lower().startswith("http"), as_str being None
\* when the payload is not UTF-8.
IsUrlPayload(candidate_bytes) ==
    LET d == utf8_decode(candidate_bytes) IN
    /\ d.ok
    /\ d.str # <<>>
    /\ Prefix(lower(strip(d.str)), 4) = HTTP_PREFIX

\* ------------------------------------------------------------------ topics
SEP == "/"

\* msg.topic.split("/"): the segments between the separators, empty
\* segments included.
RECURSIVE split_loop(_, _, _, _)
split_loop(t, i, cur, out) ==
    IF i > Len(t) THEN Append(out, cur)
    ELSE IF t[i] = SEP THEN split_loop(t, i + 1, "", Append(out, cur))
    ELSE split_loop(t, i + 1, cur \o t[i], out)

split(topic) == split_loop(topic, 1, "", <<>>)

\* on_message with the test of the last segment left out.
IsSnapshotParts_any_suffix(parts) ==
    Len(parts) = 4 /\ parts[1] = "frigate"

\* on_message of the multi-topic variant, the test on the topic:
\* len(parts) == 4 and parts[0] == "frigate" and parts[3] == "snapshot".
IsSnapshotParts(parts) ==
    Len(parts) = 4 /\ parts[1] = "frigate" /\ parts[4] = "snapshot"

\* (cam, obj) = (parts[1], parts[2])
KeyOf(parts) == <<parts[2], parts[3]>>

\* Words that start with "$" (a topic of the broker itself).
DollarWords == {"$SYS"}

\* paho's MQTTMatcher.iter_match with one subscription: sub and topic are
\* segment lists, i is the 1-based level, normal is FALSE for a "$" topic.
RECURSIVE match_rec(_, _, _, _)
match_rec(sub, lst, i, normal) ==
    \/ /\ i = Len(lst) + 1
       /\ Len(sub) = Len(lst)
    \/ /\ i <= Len(lst)
       /\ i <= Len(sub)
       /\ \/ sub[i] = lst[i]
          \/ sub[i] = "+" /\ (normal \/ i > 1)
       /\ match_rec(sub, lst, i + 1, normal)
    \/ /\ i <= Len(sub)
       /\ sub[i] = "#"
       /\ normal \/ i > 1
       /\ i = Len(sub)

\* on_message on its fallback alone: the exact comparison of line 110.
topic_matches_sub_exact(sub, topic) == sub = topic

\* mqtt.topic_matches_sub(MQTT_TOPIC, msg.topic)
topic_matches_sub(sub, topic) ==
    match_rec(split(sub), split(topic), 1,
              ~(topic # <<>> /\ topic[1] \in DollarWords))

\* --------------------------------------------------------- classification
\* What a store function decides before it touches shared state: ret is
\* "True" (an image img is to be stored), "False", or "NameError" (the call
\* raises); via names the branch that accepted; tests lists the tests run,
\* in order; log the records logged on the way.
NotAnImage(tests, log) ==
    [ret |-> "False", img |-> <<>>, via |-> "none", tests |-> tests, log |-> log]

Accepted(img, via, tests) ==
    [ret |-> "True", img |-> img, via |-> via, tests |-> tests, log |-> <<>>]

Raised(tests) ==
    [ret |-> "NameError", img |-> <<>>, via |-> "none", tests |-> tests,
     log |-> <<>>]

\* The base64 branch storing the payload instead of the decoded bytes.
raw_or_base64_keeps_text(candidate_bytes, tests) ==
    IF LooksLikeJpeg(candidate_bytes)
    THEN Accepted(candidate_bytes, "raw", tests \o <<"raw">>)
    ELSE LET decoded == b64decode(candidate_bytes) IN
         IF decoded.ok /\ LooksLikeJpeg(decoded.bin)
         THEN Accepted(candidate_bytes, "base64", tests \o <<"raw", "base64">>)
         ELSE NotAnImage(tests \o <<"raw", "base64">>, <<>>)

\* The raw and base64 branches, shared by both variants.
raw_or_base64(candidate_bytes, tests) ==
    IF LooksLikeJpeg(candidate_bytes)
    THEN Accepted(candidate_bytes, "raw", tests \o <<"raw">>)
    ELSE LET decoded == b64decode(candidate_bytes) IN
         IF decoded.ok /\ LooksLikeJpeg(decoded.bin)
         THEN Accepted(decoded.bin, "base64", tests \o <<"raw", "base64">>)
         ELSE NotAnImage(tests \o <<"raw", "base64">>, <<>>)

\* store_image_if_jpeg (single-topic variant), up to its store.
store_image_if_jpeg(candidate_bytes) ==
    IF candidate_bytes = <<>> THEN NotAnImage(<<>>, <<>>)
    ELSE raw_or_base64(candidate_bytes, <<>>)

\* fetch_jpeg_from_url(url): the multi-topic variant calls this name and
\* nothing in the module defines or imports it, so the call raises
\* NameError whatever the URL serves (body).
fetch_jpeg_from_url(url, body) == [raised |-> TRUE, img |-> <<>>]

\* store_image_for_topic going on to the raw and base64 tests after a fetch
\* that gave no image.
store_image_for_topic_falls_through(candidate_bytes, remote) ==
    IF candidate_bytes = <<>> THEN NotAnImage(<<>>, <<>>)
    ELSE IF IsUrlPayload(candidate_bytes)
    THEN LET f == fetch_jpeg_from_url(strip(utf8_decode(candidate_bytes).str),
                                      remote)
         IN  IF ~f.raised /\ f.img # <<>> /\ LooksLikeJpeg(f.img)
             THEN Accepted(f.img, "url", <<"url">>)
             ELSE raw_or_base64(candidate_bytes, <<"url">>)
    ELSE raw_or_base64(candidate_bytes, <<"url">>)

\* store_image_for_topic (multi-topic variant), up to its store.  remote is
\* what the URL of a URL-shaped payload would serve.
store_image_for_topic(candidate_bytes, remote) ==
    IF candidate_bytes = <<>> THEN NotAnImage(<<>>, <<>>)
    ELSE IF IsUrlPayload(candidate_bytes)
    THEN LET f == fetch_jpeg_from_url(strip(utf8_decode(candidate_bytes).str),
                                      remote)
         IN  IF f.raised THEN Raised(<<"url">>)
             ELSE IF f.img # <<>> /\ LooksLikeJpeg(f.img)
                  THEN Accepted(f.img, "url", <<"url">>)
                  ELSE NotAnImage(<<"url">>, <<"warning">>)
    ELSE raw_or_base64(candidate_bytes, <<"url">>)

\* ------------------------------------------------------------------ inputs
\* Payloads, as bytes (ASCII codes for text).
P_EMPTY == <<>>
P_RAW3 == <<255, 216, 255>>                      \* FF D8 FF
P_RAW4 == <<255, 216, 255, 224>>                 \* FF D8 FF E0
P_SHORT == <<255, 216>>                          \* FF D8
P_PNG == <<137, 80, 78, 71>>                     \* \x89PNG
P_B64_3 == <<47, 57, 106, 47>>                   \* "/9j/"
P_B64_4 == <<47, 57, 106, 47, 52, 65, 61, 61>>   \* "/9j/4A=="
P_B64_NOPAD == <<47, 57, 106, 47, 52, 65>>       \* "/9j/4A"
P_B64_1PAD == <<47, 57, 106, 47, 52, 65, 61>>    \* "/9j/4A="
P_B64_XPAD == <<47, 57, 106, 47, 61>>            \* "/9j/="
P_B64_NL == <<47, 57, 106, 47, 10>>              \* "/9j/\n"
P_B64_BADCH == <<47, 57, 106, 45>>               \* "/9j-"
P_B64_PNG == <<105, 86, 66, 79, 82, 119, 61, 61>> \* "iVBORw=="
P_TEXT == <<104, 105>>                           \* "hi"
P_URL == <<104, 116, 116, 112, 58, 47, 47, 120>> \* "http://x"
P_URL_UP == <<32, 72, 84, 84, 80>>               \* " HTTP"

Payloads ==
    {P_EMPTY, P_RAW3, P_RAW4, P_SHORT, P_PNG, P_B64_3, P_B64_4, P_B64_NOPAD,
     P_B64_1PAD, P_B64_XPAD, P_B64_NL, P_B64_BADCH, P_B64_PNG, P_TEXT,
     P_URL, P_URL_UP}

\* What the URL of a URL-shaped payload serves: nothing (a timeout, an
\* error), a JPEG, a page.
R_NONE == <<>>
R_JPEG == <<255, 216, 255, 225>>
R_HTML == <<60, 104>>

Remotes(p) == IF IsUrlPayload(p) THEN {R_NONE, R_JPEG, R_HTML} ELSE {R_NONE}

\* Topics, as tokens.
T_CAM1 == <<"frigate", "/", "cam1", "/", "person", "/", "snapshot">>
T_CAM2 == <<"frigate", "/", "cam2", "/", "car", "/", "snapshot">>
T_HOF == <<"frigate", "/", "hofcam1", "/", "person", "/", "snapshot">>
T_CLIP == <<"frigate", "/", "cam1", "/", "person", "/", "clip">>
T_SHORT == <<"frigate", "/", "cam1", "/", "snapshot">>
T_LONG == <<"frigate", "/", "cam1", "/", "person", "/", "snapshot", "/">>
T_ROOT == <<"other", "/", "cam1", "/", "person", "/", "snapshot">>
T_SYS == <<"$SYS", "/", "cam1", "/", "person", "/", "snapshot">>
T_BARE == <<"frigate">>

\* Topics the multi-topic variant is sent.
Topics == {T_CAM1, T_CAM2, T_CLIP, T_SHORT, T_LONG, T_ROOT}

\* Topics the single-topic variant is sent.
TopicsSingle == {T_HOF, T_CAM1, T_CAM2, T_CLIP, T_SYS, T_BARE}

\* Values of MQTT_TOPIC: the default, and two with wildcards.
SUB_DEFAULT == T_HOF
SUB_PLUS == <<"frigate", "/", "+", "/", "person", "/", "snapshot">>
SUB_HASH == <<"frigate", "/", "#">>
SUB_ALL == <<"#">>

Subscriptions == {SUB_DEFAULT, SUB_PLUS, SUB_HASH, SUB_ALL}

\* Payloads sent on a topic the variant may drop unread.
ProbePayloads == {P_RAW4, P_B64_4, P_TEXT}

Msg(t, p, r) == [topic |-> t, payload |-> p, remote |-> r]

\* Messages of the multi-topic variant.
Messages ==
    {Msg(t, p, r) : t \in {T_CAM1, T_CAM2}, p \in Payloads \ {P_URL, P_URL_UP},
                    r \in {R_NONE}}
    \cup {Msg(t, p, r) : t \in {T_CAM1}, p \in {P_URL, P_URL_UP},
                         r \in {R_NONE, R_JPEG, R_HTML}}
    \cup {Msg(t, p, r) : t \in Topics \ {T_CAM1, T_CAM2},
                         p \in ProbePayloads \cup {P_URL}, r \in {R_NONE}}

\* Messages of the single-topic variant.
MessagesSingle ==
    {Msg(t, p, r) : t \in {T_HOF}, p \in Payloads, r \in {R_NONE}}
    \cup {Msg(t, p, r) : t \in TopicsSingle \ {T_HOF}, p \in ProbePayloads,
                         r \in {R_NONE}}

\* Messages of the runs with HTTP readers.
MessagesHttp ==
    {Msg(T_CAM1, P_RAW4, R_NONE), Msg(T_CAM1, P_B64_3, R_NONE),
     Msg(T_CAM2, P_RAW3, R_NONE), Msg(T_CAM2, P_B64_4, R_NONE),
     Msg(T_CAM1, P_PNG, R_NONE), Msg(T_CLIP, P_RAW4, R_NONE)}

MessagesSingleHttp ==
    {Msg(T_HOF, P_RAW4, R_NONE), Msg(T_HOF, P_B64_3, R_NONE),
     Msg(T_HOF, P_PNG, R_NONE), Msg(T_CAM2, P_RAW4, R_NONE)}

\* Messages of the run with /events listeners.
MessagesLive ==
    {Msg(T_CAM1, P_RAW4, R_NONE), Msg(T_CAM1, P_B64_3, R_NONE),
     Msg(T_CAM1, P_PNG, R_NONE), Msg(T_CAM1, P_URL, R_JPEG),
     Msg(T_CLIP, P_RAW4, R_NONE)}

\* The /events connections.
Clients == {"c1", "c2"}

\* Keys an HTTP client asks for.
QueryKeys == {<<"cam1", "person">>, <<"cam2", "car">>, <<"cam3", "dog">>}

\* ------------------------------------------------------------------- state
VARIABLES
    boot,               \* where main() is: "main", "loop" (network thread
                        \* started), "serving" (app.run), "aborted"
    connack,            \* what on_connect has seen: "none", "subscribed"
                        \* (rc = 0), "refused" (rc # 0)
    variant,            \* "multi" or "single": the program that runs
    MQTT_TOPIC,         \* the configured subscription
    now,                \* the last reading of the clock, in ticks
    _latest_images,     \* multi: the dict, in insertion order: [key, img, ts]
    _last_image,        \* single: the image, <<>> for None
    _last_image_ts,     \* single: its timestamp, 0 at start
    _lock,              \* who holds _lock: "none", "mqtt"
    _sse_clients,       \* multi: the list of the listeners' queues
    _sse_clients_lock,  \* who holds it: "none", "mqtt"
    queue,              \* per listener, the items pending in its queue
    mqtt_pc,            \* where the MQTT network thread is
    call,               \* the frame of the on_message call in progress
    todo,               \* notify_sse_clients: the queues still to put to
    sse_pc,             \* per /events connection, where its generator is
    conn,               \* per /events connection, whether the peer is there
    http,               \* the response an HTTP handler has just built
    nUpserts,           \* history: store writes so far
    accepted,           \* history: per key, the payload last stored
    owed,               \* history: per listener, its claim on the upsert
                        \* being broadcast: "no", "owed", "gone"
    regPhase            \* history: per listener, when it registered:
                        \* "before" the last upsert, "between" its write
                        \* and its broadcast, "during" its broadcast

vars ==
    <<boot, connack, variant, MQTT_TOPIC, now, _latest_images, _last_image, _last_image_ts,
      _lock, _sse_clients, _sse_clients_lock, queue, mqtt_pc, call, todo,
      sse_pc, conn, http, nUpserts, accepted, owed, regPhase>>

bootVars == <<boot, connack>>
storeVars == <<_latest_images, _last_image, _last_image_ts>>
sseVars == <<_sse_clients, queue, sse_pc, conn>>
histVars == <<nUpserts, accepted, owed, regPhase>>

\* The key of the single-topic variant's only slot.
SINGLE == <<"single", "slot">>

KeySpace == QueryKeys \cup {SINGLE}

NoCall ==
    [topic |-> <<>>, payload |-> <<>>, remote |-> <<>>, key |-> <<>>,
     img |-> <<>>, via |-> "none", ok |-> "none", tests |-> <<>>,
     log |-> <<>>]

NoResp ==
    [route |-> "none", key |-> <<>>, status |-> 0, body |-> <<>>,
     hdr |-> <<>>, json |-> [none |-> TRUE]]

\* ---------------------------------------------------------------- the dict
\* _latest_images.get(key): <<>> for None, else <<entry>>.
dict_get(d, k) == SelectSeq(d, LAMBDA e : e.key = k)

\* The dict bound anew to the one entry written.
dict_set_rebinds(d, k, img, ts) == <<[key |-> k, img |-> img, ts |-> ts]>>

\* The key deleted and set again: an overwritten key moves to the end of
\* the dict's order.
dict_set_moves_to_end(d, k, img, ts) ==
    Append(SelectSeq(d, LAMBDA x : x.key # k),
           [key |-> k, img |-> img, ts |-> ts])

\* A store kept as a list of records: every write adds one.
dict_set_appends(d, k, img, ts) ==
    Append(d, [key |-> k, img |-> img, ts |-> ts])

\* _latest_images[key] = (img, ts): a new key goes last, a known key keeps
\* its place.
dict_set(d, k, img, ts) ==
    LET e == [key |-> k, img |-> img, ts |-> ts] IN
    IF \E i \in 1..Len(d) : d[i].key = k
    THEN [i \in 1..Len(d) |-> IF d[i].key = k THEN e ELSE d[i]]
    ELSE Append(d, e)

\* The members of a list.
Range(l) == {l[i] : i \in 1..Len(l)}

\* time.time(): the readings the clock can give after reading t.
time_time(t) == t..MaxTime

\* int(ts): whole seconds.
int(ts) == ts \div TicksPerSecond

\* str(ts): the seconds and the fraction, in ticks.
str(ts) == <<ts \div TicksPerSecond, ts % TicksPerSecond>>

\* queue.Queue(): a new queue holds nothing.
new_queue == 0

\* put_nowait on a queue of one slot: a put on a full queue is lost.
put_nowait_full(n) == IF n >= 1 THEN n ELSE n + 1

\* q.put_nowait(True) on a queue without a size limit.
put_nowait(n) == n + 1

\* list(_sse_clients)
list_copy(l) == l

\* -------------------------------------------------------------------- Init
\* The module state after import, main() at position at.
InitAt(variants, subs, at, ack) ==
    /\ boot = at
    /\ connack = ack
    /\ variant \in variants
    /\ MQTT_TOPIC \in (IF variant = "single" THEN subs ELSE {SUB_DEFAULT})
    /\ now = TicksPerSecond + 1
    /\ _latest_images = <<>>
    /\ _last_image = <<>>
    /\ _last_image_ts = 0
    /\ _lock = "none"
    /\ _sse_clients = <<>>
    /\ _sse_clients_lock = "none"
    /\ queue = [c \in Clients |-> 0]
    /\ mqtt_pc = "idle"
    /\ call = NoCall
    /\ todo = <<>>
    /\ sse_pc = [c \in Clients |-> "closed"]
    /\ conn = [c \in Clients |-> FALSE]
    /\ http = NoResp
    /\ nUpserts = 0
    /\ accepted = [k \in KeySpace |-> <<>>]
    /\ owed = [c \in Clients |-> "no"]
    /\ regPhase = [c \in Clients |-> "before"]

\* The program up and running: connected, subscribed, app.run serving.
InitWith(variants, subs) == InitAt(variants, subs, "serving", "subscribed")

\* ------------------------------------------------- the MQTT network thread
\* on_message of the multi-topic variant, the routing of a topic.
route(topic) ==
    LET parts == split(topic) IN
    IF IsSnapshotParts(parts)
    THEN [ok |-> TRUE, key |-> KeyOf(parts)]
    ELSE [ok |-> FALSE, key |-> <<>>]

\* The frame of a call whose store function returned or raised r.
Frame(m, key, r) ==
    [topic |-> m.topic, payload |-> m.payload, remote |-> m.remote,
     key |-> key, img |-> r.img, via |-> r.via,
     ok |-> IF r.ret = "True" THEN "pending" ELSE r.ret,
     tests |-> r.tests,
     log |-> <<"debug">> \o r.log
             \o IF r.ret = "False" THEN <<"warning">> ELSE <<>>]

\* Where the thread goes after the store function decided r: to the store,
\* to the return of on_message, or out of it with the exception.
AfterDecision(r) ==
    CASE r.ret = "True" -> "store"
      [] r.ret = "False" -> "return"
      [] OTHER -> "dead"

\* on_message (multi-topic variant) is called with message m: the topic is
\* routed and the payload classified; a message that is not stored is done
\* with here.
on_message(m) ==
    /\ variant = "multi"
    /\ mqtt_pc = "idle"
    /\ LET rt == route(m.topic)
           r == store_image_for_topic(m.payload, m.remote)
       IN  IF rt.ok
           THEN /\ r.ret = "True" => nUpserts < MaxUpserts
                /\ call' = Frame(m, rt.key, r)
                /\ mqtt_pc' = AfterDecision(r)
           ELSE /\ call' = [NoCall EXCEPT !.topic = m.topic,
                                          !.payload = m.payload,
                                          !.remote = m.remote,
                                          !.ok = "ignored",
                                          !.log = <<"debug", "debug">>]
                /\ mqtt_pc' = "return"
    /\ UNCHANGED <<bootVars, variant, MQTT_TOPIC, now, storeVars, _lock, sseVars,
                   _sse_clients_lock, todo, http, histVars>>

\* on_message (single-topic variant) is called with message m.
app_on_message(m) ==
    /\ variant = "single"
    /\ mqtt_pc = "idle"
    /\ LET r == store_image_if_jpeg(m.payload) IN
       IF topic_matches_sub(MQTT_TOPIC, m.topic)
       THEN /\ r.ret = "True" => nUpserts < MaxUpserts
            /\ call' = Frame(m, SINGLE, r)
            /\ mqtt_pc' = AfterDecision(r)
       ELSE /\ call' = [NoCall EXCEPT !.topic = m.topic,
                                      !.payload = m.payload,
                                      !.remote = m.remote,
                                      !.ok = "ignored",
                                      !.log = <<"debug">>]
            /\ mqtt_pc' = "return"
    /\ UNCHANGED <<bootVars, variant, MQTT_TOPIC, now, storeVars, _lock, sseVars,
                   _sse_clients_lock, todo, http, histVars>>

\* store_image_for_topic calling notify_sse_clients() before its with
\* block: the broadcast runs and the record is not written yet.
AcquireLock_notifies_first ==
    /\ mqtt_pc = "store"
    /\ _lock = "none"
    /\ IF variant = "multi"
       THEN _lock' = _lock /\ mqtt_pc' = "notify"
       ELSE _lock' = "mqtt" /\ mqtt_pc' = "write"
    /\ UNCHANGED <<bootVars, variant, MQTT_TOPIC, now, storeVars, sseVars,
                   _sse_clients_lock, call, todo, http, histVars>>

\* with _lock: the thread takes the lock before it stores.
AcquireLock ==
    /\ mqtt_pc = "store"
    /\ _lock = "none"
    /\ _lock' = "mqtt"
    /\ mqtt_pc' = "write"
    /\ UNCHANGED <<bootVars, variant, MQTT_TOPIC, now, storeVars, sseVars,
                   _sse_clients_lock, call, todo, http, histVars>>

\* The listeners' claims on an upsert made now: those registered are owed
\* a signal.
OwedAtUpsert == [c \in Clients |-> IF c \in Range(_sse_clients) THEN "owed" ELSE "no"]

\* The store with notify_sse_clients() called inside the with block: _lock
\* is still held when the broadcast takes _sse_clients_lock.
Upsert_keeps_lock ==
    /\ variant = "multi"
    /\ mqtt_pc = "write"
    /\ \E ts \in time_time(now) :
          /\ now' = ts
          /\ _latest_images' = dict_set(_latest_images, call.key, call.img, ts)
    /\ call' = [call EXCEPT !.log = @ \o <<"info">>]
    /\ mqtt_pc' = "notify"
    /\ nUpserts' = nUpserts + 1
    /\ accepted' = [accepted EXCEPT ![call.key] = call.payload]
    /\ owed' = OwedAtUpsert
    /\ UNCHANGED <<bootVars, variant, MQTT_TOPIC, _last_image, _last_image_ts,
                   _lock, sseVars, _sse_clients_lock, todo, http, regPhase>>

\* _latest_images[(cam, obj)] = (img, time.time()), then the lock is
\* released and the store logged.
Upsert ==
    /\ variant = "multi"
    /\ mqtt_pc = "write"
    /\ \E ts \in time_time(now) :
          /\ now' = ts
          /\ _latest_images' = dict_set(_latest_images, call.key, call.img, ts)
    /\ _lock' = "none"
    /\ call' = [call EXCEPT !.log = @ \o <<"info">>]
    /\ mqtt_pc' = "notify"
    /\ nUpserts' = nUpserts + 1
    /\ accepted' = [accepted EXCEPT ![call.key] = call.payload]
    /\ owed' = OwedAtUpsert
    /\ UNCHANGED <<bootVars, variant, MQTT_TOPIC, _last_image, _last_image_ts, sseVars,
                   _sse_clients_lock, todo, http, regPhase>>

\* The image written in a with block of its own: the lock is free before
\* the timestamp is written.
WriteImage_releases_lock ==
    /\ variant = "single"
    /\ mqtt_pc = "write"
    /\ _last_image' = call.img
    /\ _lock' = "none"
    /\ mqtt_pc' = "write_ts"
    /\ UNCHANGED <<bootVars, variant, MQTT_TOPIC, now, _latest_images,
                   _last_image_ts, sseVars, _sse_clients_lock, call, todo,
                   http, histVars>>

\* _last_image = img, under the lock.
WriteImage ==
    /\ variant = "single"
    /\ mqtt_pc = "write"
    /\ _last_image' = call.img
    /\ mqtt_pc' = "write_ts"
    /\ UNCHANGED <<bootVars, variant, MQTT_TOPIC, now, _latest_images, _last_image_ts,
                   _lock, sseVars, _sse_clients_lock, call, todo, http,
                   histVars>>

\* _last_image_ts = time.time(), then the lock is released, the store
\* logged and True returned.
WriteTs ==
    /\ variant = "single"
    /\ mqtt_pc = "write_ts"
    /\ \E ts \in time_time(now) :
          /\ now' = ts
          /\ _last_image_ts' = ts
    /\ _lock' = "none"
    /\ call' = [call EXCEPT !.log = @ \o <<"info">>, !.ok = "True"]
    /\ mqtt_pc' = "return"
    /\ nUpserts' = nUpserts + 1
    /\ accepted' = [accepted EXCEPT ![call.key] = call.payload]
    /\ UNCHANGED <<bootVars, variant, MQTT_TOPIC, _latest_images, _last_image, sseVars,
                   _sse_clients_lock, todo, http, owed, regPhase>>

\* notify_sse_clients taking its copy under the lock and putting after
\* the lock is released.
NotifyAcquire_copy_only ==
    /\ mqtt_pc = "notify"
    /\ _sse_clients_lock = "none"
    /\ _sse_clients_lock' = "none"
    /\ todo' = list_copy(_sse_clients)
    /\ mqtt_pc' = "put"
    /\ UNCHANGED <<bootVars, variant, MQTT_TOPIC, now, storeVars, _lock,
                   sseVars, call, http, histVars>>

\* notify_sse_clients: with _sse_clients_lock, and the copy of the list.
NotifyAcquire ==
    /\ mqtt_pc = "notify"
    /\ _sse_clients_lock = "none"
    /\ _sse_clients_lock' = "mqtt"
    /\ todo' = list_copy(_sse_clients)
    /\ mqtt_pc' = "put"
    /\ UNCHANGED <<bootVars, variant, MQTT_TOPIC, now, storeVars, _lock, sseVars, call,
                   http, histVars>>

\* q.put_nowait(True) for the next queue of the copy.
NotifyPut ==
    /\ mqtt_pc = "put"
    /\ todo # <<>>
    /\ LET c == Head(todo) IN
       /\ queue' = [queue EXCEPT ![c] = put_nowait(@)]
       /\ owed' = [owed EXCEPT ![c] = IF @ = "owed" /\ queue'[c] > queue[c]
                                       THEN "no" ELSE @]
    /\ todo' = Tail(todo)
    /\ UNCHANGED <<bootVars, variant, MQTT_TOPIC, now, storeVars, _lock, _sse_clients,
                   _sse_clients_lock, sse_pc, conn, mqtt_pc, call, http,
                   nUpserts, accepted, regPhase>>

\* The loop is over: the lock is released and store_image_for_topic
\* returns True.
NotifyRelease ==
    /\ mqtt_pc = "put"
    /\ todo = <<>>
    /\ _sse_clients_lock' = "none"
    /\ call' = [call EXCEPT !.ok = "True"]
    /\ mqtt_pc' = "return"
    /\ owed' = [c \in Clients |-> "no"]
    /\ regPhase' = [c \in Clients |-> "before"]
    /\ UNCHANGED <<bootVars, variant, MQTT_TOPIC, now, storeVars, _lock, sseVars, todo,
                   http, nUpserts, accepted>>

\* on_message returns; the thread waits for the next message.
Return ==
    /\ mqtt_pc = "return"
    /\ call' = NoCall
    /\ mqtt_pc' = "idle"
    /\ UNCHANGED <<bootVars, variant, MQTT_TOPIC, now, storeVars, _lock, sseVars,
                   _sse_clients_lock, todo, http, histVars>>

\* ------------------------------------------------ the /events connections
\* A browser opens /events: sse_events builds the response, and gen() makes
\* its queue when the server first iterates it.
Connect(c) ==
    /\ variant = "multi"
    /\ sse_pc[c] = "closed"
    /\ sse_pc' = [sse_pc EXCEPT ![c] = "subscribe"]
    /\ conn' = [conn EXCEPT ![c] = TRUE]
    /\ queue' = [queue EXCEPT ![c] = new_queue]
    /\ UNCHANGED <<bootVars, variant, MQTT_TOPIC, now, storeVars, _lock, _sse_clients,
                   _sse_clients_lock, mqtt_pc, call, todo, http, histVars>>

\* Where the MQTT thread is with its last upsert: "between" the write and
\* the broadcast, "during" the broadcast, else "before" the next.
PhaseNow ==
    CASE mqtt_pc = "notify" -> "between"
      [] mqtt_pc = "put" -> "during"
      [] OTHER -> "before"

\* with _sse_clients_lock: _sse_clients.append(q); the generator then
\* yields the initial event.
Subscribe(c) ==
    /\ sse_pc[c] = "subscribe"
    /\ _sse_clients_lock = "none"
    /\ _sse_clients' = Append(_sse_clients, c)
    /\ sse_pc' = [sse_pc EXCEPT ![c] = "yield"]
    /\ regPhase' = [regPhase EXCEPT ![c] = PhaseNow]
    /\ UNCHANGED <<bootVars, variant, MQTT_TOPIC, now, storeVars, _lock,
                   _sse_clients_lock, queue, conn, mqtt_pc, call, todo, http,
                   nUpserts, accepted, owed>>

\* The browser goes away.
Disconnect(c) ==
    /\ conn[c]
    /\ conn' = [conn EXCEPT ![c] = FALSE]
    /\ UNCHANGED <<bootVars, variant, MQTT_TOPIC, now, storeVars, _lock, _sse_clients,
                   _sse_clients_lock, queue, sse_pc, mqtt_pc, call, todo,
                   http, histVars>>

\* The server writes the event the generator yielded and asks for the
\* next: the generator goes on to q.get().  A write to a peer that is gone
\* may still be buffered.
EventSent(c) ==
    /\ sse_pc[c] = "yield"
    /\ sse_pc' = [sse_pc EXCEPT ![c] = "get"]
    /\ UNCHANGED <<bootVars, variant, MQTT_TOPIC, now, storeVars, _lock, _sse_clients,
                   _sse_clients_lock, queue, conn, mqtt_pc, call, todo, http,
                   histVars>>

\* The write fails, the peer being gone: the server closes the generator,
\* GeneratorExit is raised at the yield and the finally clause is entered.
EventFailed(c) ==
    /\ sse_pc[c] = "yield"
    /\ ~conn[c]
    /\ sse_pc' = [sse_pc EXCEPT ![c] = "finally"]
    /\ UNCHANGED <<bootVars, variant, MQTT_TOPIC, now, storeVars, _lock, _sse_clients,
                   _sse_clients_lock, queue, conn, mqtt_pc, call, todo, http,
                   histVars>>

\* q.get() returns an item; the generator yields the next event.
Get(c) ==
    /\ sse_pc[c] = "get"
    /\ queue[c] > 0
    /\ queue' = [queue EXCEPT ![c] = @ - 1]
    /\ sse_pc' = [sse_pc EXCEPT ![c] = "yield"]
    /\ UNCHANGED <<bootVars, variant, MQTT_TOPIC, now, storeVars, _lock, _sse_clients,
                   _sse_clients_lock, conn, mqtt_pc, call, todo, http,
                   histVars>>

\* finally: with _sse_clients_lock: if q in _sse_clients:
\* _sse_clients.remove(q).  The generator is over and its queue dropped.
Unsubscribe(c) ==
    /\ sse_pc[c] = "finally"
    /\ _sse_clients_lock = "none"
    /\ _sse_clients' = SelectSeq(_sse_clients, LAMBDA x : x # c)
    /\ sse_pc' = [sse_pc EXCEPT ![c] = "closed"]
    /\ queue' = [queue EXCEPT ![c] = 0]
    /\ owed' = [owed EXCEPT ![c] = IF @ = "owed" THEN "gone" ELSE @]
    /\ regPhase' = [regPhase EXCEPT ![c] = "before"]
    /\ UNCHANGED <<bootVars, variant, MQTT_TOPIC, now, storeVars, _lock,
                   _sse_clients_lock, conn, mqtt_pc, call, todo, http,
                   nUpserts, accepted>>

\* ------------------------------------------------------- the HTTP handlers
Resp(rt, key, code, body, hdr, json) ==
    [route |-> rt, key |-> key, status |-> code, body |-> body,
     hdr |-> hdr, json |-> json]

NoJson == [none |-> TRUE]

\* image(cam, obj) indexing the dict: a key without a record is an error.
image_response_raises(d, key) ==
    LET entry == dict_get(d, key) IN
    IF entry = <<>>
    THEN Resp("image", key, 500, <<>>, <<>>, NoJson)
    ELSE Resp("image", key, 200, entry[1].img, str(entry[1].ts), NoJson)

\* image(cam, obj) of the multi-topic variant, under _lock.
image_response(d, key) ==
    LET entry == dict_get(d, key) IN
    IF entry = <<>>
    THEN Resp("image", key, 204, <<>>, <<>>, NoJson)
    ELSE Resp("image", key, 200, entry[1].img, str(entry[1].ts), NoJson)

image(key) ==
    /\ variant = "multi"
    /\ http = NoResp
    /\ _lock = "none"
    /\ http' = image_response(_latest_images, key)
    /\ UNCHANGED <<bootVars, variant, MQTT_TOPIC, now, storeVars, _lock, sseVars,
                   _sse_clients_lock, mqtt_pc, call, todo, histVars>>

\* The row gallery() builds of one entry.
GalleryRow(e) == [cam |-> e.key[1], obj |-> e.key[2], ts |-> int(e.ts)]

\* gallery(): if latest is None or ts > latest["ts"], where latest["ts"]
\* was stored as int(ts): whole seconds, compared with a float.
later_than(ts, latest) == latest = <<>> \/ ts > latest[1].ts * TicksPerSecond

\* The loop of gallery() over _latest_images.items(), from entry i on.
RECURSIVE gallery_loop(_, _, _)
gallery_loop(d, i, latest) ==
    IF i > Len(d) THEN latest
    ELSE gallery_loop(d, i + 1,
                      IF later_than(d[i].ts, latest)
                      THEN <<GalleryRow(d[i])>>
                      ELSE latest)

gallery_response(d) ==
    Resp("gallery", <<>>, 200, <<>>, <<>>,
         [images |-> [i \in 1..Len(d) |-> GalleryRow(d[i])],
          latest |-> gallery_loop(d, 1, <<>>)])

gallery ==
    /\ variant = "multi"
    /\ http = NoResp
    /\ _lock = "none"
    /\ http' = gallery_response(_latest_images)
    /\ UNCHANGED <<bootVars, variant, MQTT_TOPIC, now, storeVars, _lock, sseVars,
                   _sse_clients_lock, mqtt_pc, call, todo, histVars>>

\* status() of the multi-topic variant.
status_response(d) ==
    Resp("status", <<>>, 200, <<>>, <<>>,
         [num_images |-> Len(d),
          cameras |-> {d[i].key[1] : i \in 1..Len(d)},
          objects |-> {d[i].key[2] : i \in 1..Len(d)}])

status ==
    /\ variant = "multi"
    /\ http = NoResp
    /\ _lock = "none"
    /\ http' = status_response(_latest_images)
    /\ UNCHANGED <<bootVars, variant, MQTT_TOPIC, now, storeVars, _lock, sseVars,
                   _sse_clients_lock, mqtt_pc, call, todo, histVars>>

\* image() of the single-topic variant: img and ts are read under _lock.
app_image_response(img, ts) ==
    IF img = <<>>
    THEN Resp("image", SINGLE, 204, <<>>, <<>>, NoJson)
    ELSE Resp("image", SINGLE, 200, img, str(ts), NoJson)

app_image ==
    /\ variant = "single"
    /\ http = NoResp
    /\ _lock = "none"
    /\ http' = app_image_response(_last_image, _last_image_ts)
    /\ UNCHANGED <<bootVars, variant, MQTT_TOPIC, now, storeVars, _lock, sseVars,
                   _sse_clients_lock, mqtt_pc, call, todo, histVars>>

\* status() of the single-topic variant.
app_status_response(img, ts) ==
    Resp("status", SINGLE, 200, <<>>, <<>>,
         [has_image |-> img # <<>>, last_image_ts |-> ts,
          last_image_size |-> Len(img)])

app_status ==
    /\ variant = "single"
    /\ http = NoResp
    /\ _lock = "none"
    /\ http' = app_status_response(_last_image, _last_image_ts)
    /\ UNCHANGED <<bootVars, variant, MQTT_TOPIC, now, storeVars, _lock, sseVars,
                   _sse_clients_lock, mqtt_pc, call, todo, histVars>>

\* The response is sent.
Respond ==
    /\ http # NoResp
    /\ http' = NoResp
    /\ UNCHANGED <<bootVars, variant, MQTT_TOPIC, now, storeVars, _lock, sseVars,
                   _sse_clients_lock, mqtt_pc, call, todo, histVars>>

\* ---------------------------------------------------------- specifications
\* The steps of the MQTT thread after on_message was called.
MqttStep ==
    \/ AcquireLock
    \/ Upsert
    \/ NotifyAcquire
    \/ NotifyRelease
    \/ Return

\* The multi-topic variant with its /events listeners.
Init == InitWith({"multi"}, {SUB_DEFAULT})

Next ==
    \/ \E m \in MessagesLive : nUpserts < MaxLiveUpserts /\ on_message(m)
    \/ MqttStep
    \/ NotifyPut
    \/ \E c \in Clients : Connect(c)
    \/ \E c \in Clients : Subscribe(c)
    \/ \E c \in Clients : Disconnect(c)
    \/ \E c \in Clients : EventSent(c)
    \/ \E c \in Clients : EventFailed(c)
    \/ \E c \in Clients : Get(c)
    \/ \E c \in Clients : Unsubscribe(c)

Spec == Init /\ [][Next]_vars

\* Both variants, every message, no HTTP client.
InitIngest == InitWith({"multi", "single"}, Subscriptions)

NextIngest ==
    \/ \E m \in Messages : on_message(m)
    \/ \E m \in MessagesSingle : app_on_message(m)
    \/ MqttStep
    \/ WriteImage
    \/ WriteTs

SpecIngest == InitIngest /\ [][NextIngest]_vars

\* Both variants with their HTTP readers, no /events listener.
InitHttp == InitWith({"multi", "single"}, {SUB_DEFAULT})

NextHttp ==
    \/ \E m \in MessagesHttp : on_message(m)
    \/ \E m \in MessagesSingleHttp : app_on_message(m)
    \/ MqttStep
    \/ WriteImage
    \/ WriteTs
    \/ \E k \in QueryKeys : image(k)
    \/ gallery
    \/ status
    \/ app_image
    \/ app_status
    \/ Respond

SpecHttp == InitHttp /\ [][NextHttp]_vars

\* The same run with the threads scheduled: the MQTT thread and every
\* generator take a step they can take; no new message and no new
\* connection need ever come.
ListenerStep(c) ==
    \/ Subscribe(c)
    \/ EventSent(c)
    \/ EventFailed(c)
    \/ Get(c)
    \/ Unsubscribe(c)

Fairness ==
    /\ WF_vars(MqttStep \/ NotifyPut)
    /\ \A c \in Clients : WF_vars(ListenerStep(c)) /\ WF_vars(EventFailed(c))

SpecFair == Spec /\ Fairness

\* The scheduled run with gallery() among the threads: a reader of the
\* store beside the writer, the broadcast and one /events connection.
MessagesLocks ==
    {Msg(T_CAM1, P_RAW4, R_NONE), Msg(T_CAM2, P_B64_3, R_NONE),
     Msg(T_CAM1, P_PNG, R_NONE), Msg(T_CAM1, P_URL, R_JPEG)}

\* The /events connection of this run.
ClientsLocks == {"c1"}

NextLocks ==
    \/ \E m \in MessagesLocks : nUpserts < MaxLiveUpserts /\ on_message(m)
    \/ MqttStep
    \/ NotifyPut
    \/ \E c \in ClientsLocks : Connect(c)
    \/ \E c \in ClientsLocks : ListenerStep(c)
    \/ \E c \in ClientsLocks : Disconnect(c)
    \/ gallery
    \/ Respond

SpecLocks == Init /\ [][NextLocks]_vars /\ Fairness /\ WF_vars(Respond)

\* ----------------------------------------------------------------- startup
\* start_mqtt_client(): client.connect raises, and main() with it, or the
\* network loop is started in its thread.
start_mqtt_client(raises) ==
    /\ boot = "main"
    /\ boot' = IF raises THEN "aborted" ELSE "loop"
    /\ UNCHANGED <<connack, variant, MQTT_TOPIC, now, storeVars, _lock,
                   sseVars, _sse_clients_lock, mqtt_pc, call, todo, http,
                   histVars>>

\* The return codes of a CONNACK: 0 accepted, the others refused.
ReturnCodes == {0, 4, 5}

\* on_connect, in the network thread: subscribes if rc == 0, else logs
\* an error.
on_connect(rc) ==
    /\ boot \in {"loop", "serving"}
    /\ connack = "none"
    /\ connack' = IF rc = 0 THEN "subscribed" ELSE "refused"
    /\ UNCHANGED <<boot, variant, MQTT_TOPIC, now, storeVars, _lock, sseVars,
                   _sse_clients_lock, mqtt_pc, call, todo, http, histVars>>

\* main(): app.run(...) after start_mqtt_client() has returned.
app_run ==
    /\ boot = "loop"
    /\ boot' = "serving"
    /\ UNCHANGED <<connack, variant, MQTT_TOPIC, now, storeVars, _lock,
                   sseVars, _sse_clients_lock, mqtt_pc, call, todo, http,
                   histVars>>

\* The multi-topic variant from the start of main(): messages come once
\* subscribed, HTTP requests are answered once app.run serves.
InitMain == InitAt({"multi"}, {SUB_DEFAULT}, "main", "none")

NextMain ==
    \/ \E raises \in BOOLEAN : start_mqtt_client(raises)
    \/ \E rc \in ReturnCodes : on_connect(rc)
    \/ app_run
    \/ \E m \in MessagesHttp : connack = "subscribed" /\ on_message(m)
    \/ MqttStep
    \/ \E k \in QueryKeys : boot = "serving" /\ image(k)
    \/ boot = "serving" /\ gallery
    \/ boot = "serving" /\ status
    \/ Respond

SpecMain == InitMain /\ [][NextMain]_vars

\* ------------------------------------------------- what the claims speak of
\* The payload starts with the JPEG start-of-image marker FF D8 FF.
StartsWithMarker(p) == Len(p) >= 3 /\ p[1] = 255 /\ p[2] = 216 /\ p[3] = 255

\* A digit of the base64 alphabet (RFC 4648).
IsB64Digit(c) == c \in (65..90) \cup (97..122) \cup (48..57) \cup {43, 47}

\* Strict base64: whole groups of four digits, the last group ending in at
\* most two "=".
IsStrictBase64(p) ==
    /\ Len(p) % 4 = 0
    /\ \E n \in 0..2 :
          /\ n < Len(p) \/ n = 0
          /\ \A i \in 1..(Len(p) - n) : IsB64Digit(p[i])
          /\ \A i \in (Len(p) - n + 1)..Len(p) : p[i] = 61

\* Strict base64 whose first three decoded bytes are FF D8 FF: its first
\* four digits are "/9j/".
DecodesToMarker(p) ==
    IsStrictBase64(p) /\ Len(p) >= 4 /\ SubSeq(p, 1, 4) = <<47, 57, 106, 47>>

\* The payloads the specification calls an image.
IsImagePayload(p) == StartsWithMarker(p) \/ DecodesToMarker(p)

\* The base64 digit of a 6-bit value.
B64Digit(v) ==
    IF v < 26 THEN 65 + v
    ELSE IF v < 52 THEN 71 + v
    ELSE IF v < 62 THEN v - 4
    ELSE IF v = 62 THEN 43
    ELSE 47

\* The base64 text of bytes b (RFC 4648, padded).
RECURSIVE B64Encode(_)
B64Encode(b) ==
    IF b = <<>> THEN <<>>
    ELSE IF Len(b) = 1
    THEN <<B64Digit(b[1] \div 4), B64Digit((b[1] % 4) * 16), 61, 61>>
    ELSE IF Len(b) = 2
    THEN <<B64Digit(b[1] \div 4),
           B64Digit((b[1] % 4) * 16 + b[2] \div 16),
           B64Digit((b[2] % 16) * 4), 61>>
    ELSE <<B64Digit(b[1] \div 4),
           B64Digit((b[1] % 4) * 16 + b[2] \div 16),
           B64Digit((b[2] % 16) * 4 + b[3] \div 64),
           B64Digit(b[3] % 64)>> \o B64Encode(SubSeq(b, 4, Len(b)))

\* img is the image that payload p carries: p itself when p is raw JPEG,
\* else the bytes whose base64 text p is (up to "=" after it).
IsImageOf(img, p) ==
    IF StartsWithMarker(p) THEN img = p
    ELSE LET e == B64Encode(img) IN
         /\ img # p
         /\ Len(e) <= Len(p)
         /\ SubSeq(p, 1, Len(e)) = e
         /\ \A i \in (Len(e) + 1)..Len(p) : p[i] = 61

\* The topic has exactly four segments, the first "frigate" and the last
\* "snapshot" (a topic of words between single separators).
IsSnapshotTopic(t) ==
    /\ Len(t) = 7
    /\ \A i \in 1..7 : (t[i] = SEP) <=> (i % 2 = 0)
    /\ t[1] = "frigate"
    /\ t[7] = "snapshot"

\* The segments of a topic of words between single separators.
Segments(t) == [i \in 1..((Len(t) + 1) \div 2) |-> t[2 * i - 1]]

\* MQTT topic matching: "+" matches one level, a final "#" the rest (and
\* the level above it); a "$" topic matches no leading wildcard.
MqttMatches(sub, topic) ==
    LET S == Segments(sub)
        T == Segments(topic)
        n == Len(S)
        LevelOk(i) == S[i] = "+" \/ S[i] = T[i]
    IN  /\ T[1] \in DollarWords => S[1] \notin {"+", "#"}
        /\ IF S[n] = "#"
           THEN Len(T) >= n - 1 /\ \A i \in 1..(n - 1) : LevelOk(i)
           ELSE Len(T) = n /\ \A i \in 1..n : LevelOk(i)

\* The payload is text that, trimmed, starts with "http" in any case.
IsUrlShaped(p) ==
    \E k \in 0..Len(p) :
        /\ \A i \in 1..k : p[i] \in {9, 10, 13, 32}
        /\ Len(p) >= k + 4
        /\ \A i \in 1..4 :
              p[k + i] \in {HTTP_PREFIX[i], HTTP_PREFIX[i] - 32}
        /\ \A i \in 1..Len(p) : p[i] < 128

\* The record the store holds for key k, <<>> when it holds none.
RecordOf(k) ==
    IF variant = "multi" THEN dict_get(_latest_images, k)
    ELSE IF k = SINGLE /\ _last_image # <<>>
    THEN <<[key |-> SINGLE, img |-> _last_image, ts |-> _last_image_ts]>>
    ELSE <<>>

\* A call of on_message is in progress or has just ended.
InCall == call # NoCall

\* The call was routed to a slot: its payload went to the store function.
Routed == InCall /\ call.ok # "ignored"

\* The call has ended: on_message is about to return, or has raised.
CallEnded == mqtt_pc \in {"return", "dead"}

\* ------------------------------------------------------------------ claims
\* C1 (as claimed): a payload that reaches the store function is accepted
\* iff it starts with FF D8 FF or is strict base64 that decodes to bytes
\* starting with FF D8 FF; every other payload makes the function return
\* False and leaves the store unchanged.
C1_ClassifyIffImage ==
    /\ [](Routed /\ CallEnded =>
            IF IsImagePayload(call.payload) THEN call.ok = "True"
            ELSE call.ok = "False")
    /\ [][Routed /\ ~IsImagePayload(call.payload) => UNCHANGED storeVars]_vars

\* C2: once on_message has stored the payload of a message on
\* frigate/<cam>/<obj>/snapshot, the record under (cam, obj) holds the
\* image the payload carries (the payload when raw, the decoded bytes when
\* base64), and image(cam, obj) answers 200 with the bytes of the record
\* and the timestamp of the same record in X-Image-Timestamp.
C2_StoredThenServed ==
    /\ [](variant = "multi" /\ CallEnded /\ call.ok = "True" =>
            /\ IsSnapshotTopic(call.topic)
            /\ LET e == dict_get(_latest_images, <<call.topic[3], call.topic[5]>>)
               IN  Len(e) = 1 /\ IsImageOf(e[1].img, call.payload))
    /\ [][variant = "multi" /\ http = NoResp /\ http'.route = "image" =>
            LET e == dict_get(_latest_images, http'.key) IN
            e # <<>> =>
               /\ http'.status = 200
               /\ http'.body = e[1].img
               /\ IsImageOf(http'.body, accepted[http'.key])
               /\ Len(http'.hdr) = 2
               /\ http'.hdr[2] \in 0..(TicksPerSecond - 1)
               /\ http'.hdr[1] * TicksPerSecond + http'.hdr[2] = e[1].ts]_vars

\* C2 happens: a base64 payload was stored and image() has served the
\* decoded bytes.
C2_Witness ==
    /\ variant = "multi"
    /\ http.route = "image"
    /\ http.status = 200
    /\ http.key = <<"cam2", "car">>
    /\ accepted[http.key] = P_B64_4
    /\ http.body = P_RAW4
    /\ mqtt_pc = "idle"

\* C3: the store holds at most one record per key, the record of a key is
\* the image of the payload last stored for it, a call that was not routed
\* or whose payload was not accepted changes no record, and a record
\* changes only in a call routed to its key.
C3_LastWriteWins ==
    /\ [](/\ \A i, j \in 1..Len(_latest_images) :
                _latest_images[i].key = _latest_images[j].key => i = j
          /\ mqtt_pc # "write_ts" =>
                \A k \in KeySpace :
                    IF accepted[k] = <<>> THEN RecordOf(k) = <<>>
                    ELSE /\ Len(RecordOf(k)) = 1
                         /\ IsImageOf(RecordOf(k)[1].img, accepted[k])
          /\ \A i \in 1..Len(_latest_images) :
                _latest_images[i].key \in KeySpace)
    /\ [][/\ call.ok \in {"ignored", "False", "NameError"} =>
                UNCHANGED storeVars
          /\ call'.ok \in {"ignored", "False", "NameError"} =>
                UNCHANGED storeVars
          /\ \A k \in KeySpace :
                RecordOf(k)' # RecordOf(k) =>
                    call.key = k /\ call.ok = "pending"]_vars

\* C3 happens: a second accepted message has replaced the record of a key
\* while another key kept its own, and a message that is no image has been
\* dropped since.
C3_Witness ==
    /\ variant = "multi"
    /\ nUpserts = 3
    /\ Len(_latest_images) = 2
    /\ accepted[<<"cam1", "person">>] = P_B64_3
    /\ accepted[<<"cam2", "car">>] = P_RAW4
    /\ CallEnded
    /\ call.ok = "False"
    /\ call.payload = P_PNG

\* C4 (as claimed): when the broadcast of an upsert has gone through its
\* list, every listener that was registered at the time of the upsert has
\* had a signal put on its queue, and the store does not change before.
C4_EveryListenerAtUpsert ==
    /\ [](mqtt_pc = "put" /\ todo = <<>> => \A c \in Clients : owed[c] = "no")
    /\ [][storeVars' # storeVars => \A c \in Clients : owed[c] = "no"]_vars

\* C4 (amended): every listener that was registered at the time of the
\* upsert and is still registered when notify_sse_clients copies the list
\* has a signal put on its queue before the next store mutation; a
\* listener that left in between gets none.
C4_EveryRemainingListener ==
    /\ [](mqtt_pc = "put" /\ todo = <<>> =>
            \A c \in Clients :
                /\ owed[c] # "owed"
                /\ owed[c] = "gone" => regPhase[c] # "before"
                                       \/ c \notin Range(_sse_clients))
    /\ [][storeVars' # storeVars => \A c \in Clients : owed[c] = "no"]_vars

\* C4 happens: two listeners were registered at the upsert, the broadcast
\* has put a signal on the queue of each, one of them on top of a signal
\* it had not taken yet.
C4_Witness ==
    /\ mqtt_pc = "put"
    /\ todo = <<>>
    /\ nUpserts = 2
    /\ Len(_sse_clients) = 2
    /\ \A c \in Clients : regPhase[c] = "before" /\ owed[c] = "no"
    /\ queue["c1"] = 2
    /\ queue["c2"] = 1

\* C5 (as claimed): a signal is put only on the queue of a listener that
\* subscribed before the upsert it announces was written to the store.
C5_NoRetroactiveSignal ==
    [][\A c \in Clients : queue'[c] > queue[c] => regPhase[c] = "before"]_vars

\* C6 (as claimed): gallery() reports no latest entry for an empty store
\* and otherwise an entry whose stored timestamp is the greatest of all.
C6_LatestIsMaximum ==
    [][variant = "multi" /\ http = NoResp /\ http'.route = "gallery" =>
        LET L == http'.json.latest
            d == _latest_images
        IN  IF d = <<>> THEN L = <<>>
            ELSE /\ Len(L) = 1
                 /\ \E i \in 1..Len(d) :
                       /\ d[i].key = <<L[1].cam, L[1].obj>>
                       /\ \A j \in 1..Len(d) : d[j].ts <= d[i].ts]_vars

\* C7: on_message of the multi-topic variant routes a topic iff it has
\* four segments, the first "frigate" and the last "snapshot", and then to
\* the key (segment 2, segment 3); a topic that is not routed leads to no
\* classification, no store change and no broadcast, whatever the payload.
C7_RoutesSnapshotTopics ==
    /\ [](variant = "multi" /\ InCall =>
            /\ Routed <=> IsSnapshotTopic(call.topic)
            /\ Routed => call.key = <<call.topic[3], call.topic[5]>>
            /\ ~Routed => call.tests = <<>> /\ mqtt_pc = "return")
    /\ [][variant = "multi" /\ (call.ok = "ignored" \/ call'.ok = "ignored") =>
            /\ UNCHANGED <<storeVars, queue, nUpserts>>
            /\ mqtt_pc' \in {"return", "idle"}]_vars

\* C7 happens: a JPEG payload on frigate/cam1/person/clip was dropped
\* although records are stored.
C7_Witness ==
    /\ variant = "multi"
    /\ mqtt_pc = "return"
    /\ call.ok = "ignored"
    /\ call.topic = T_CLIP
    /\ call.payload = P_RAW4
    /\ _latest_images # <<>>

\* C8 (as claimed): in the single-topic variant a message whose topic does
\* not match the subscription is dropped with a warning in the log.
C8_WarnsOnNoMatch ==
    variant = "single" /\ mqtt_pc = "return"
        /\ ~MqttMatches(MQTT_TOPIC, call.topic)
    => "warning" \in Range(call.log)

\* C8 (amended): in the single-topic variant a message is processed
\* against the singleton slot iff its topic matches the subscription
\* ('+' one level, '#' the rest); a message that does not match is dropped
\* with no classification, no warning and no change of the stored image
\* or timestamp.
C8_DropsOnNoMatch ==
    /\ [](variant = "single" /\ InCall =>
            /\ Routed <=> MqttMatches(MQTT_TOPIC, call.topic)
            /\ Routed => call.key = SINGLE
            /\ ~Routed => /\ call.tests = <<>>
                          /\ call.log = <<"debug">>
                          /\ mqtt_pc = "return")
    /\ [][variant = "single" /\ (call.ok = "ignored" \/ call'.ok = "ignored") =>
            /\ UNCHANGED <<storeVars, nUpserts>>
            /\ mqtt_pc' \in {"return", "idle"}]_vars

\* C8 happens: under the subscription frigate/+/person/snapshot an image
\* is stored and a JPEG on frigate/cam2/car/snapshot has been dropped.
C8_Witness ==
    /\ variant = "single"
    /\ MQTT_TOPIC = SUB_PLUS
    /\ mqtt_pc = "return"
    /\ call.ok = "ignored"
    /\ call.topic = T_CAM2
    /\ call.payload = P_RAW4
    /\ _last_image = P_RAW3

\* C9: in the multi-topic variant a routed message with a URL-shaped
\* payload whose fetch fails or yields no JPEG changes no record, starts no
\* broadcast, and is tested neither as raw JPEG nor as base64.
C9_FailedFetchStoresNothing ==
    /\ [](variant = "multi" /\ Routed /\ IsUrlShaped(call.payload)
             /\ call.remote \in {R_NONE, R_HTML} =>
            /\ call.tests = <<"url">>
            /\ call.via = "none"
            /\ call.ok \in {"False", "NameError"}
            /\ mqtt_pc \in {"return", "dead"})
    /\ [][variant = "multi" /\ IsUrlShaped(call'.payload)
             /\ call'.remote \in {R_NONE, R_HTML} /\ call'.ok # "ignored" =>
            UNCHANGED <<storeVars, queue, nUpserts, owed>>]_vars

\* C9 happens: a record is stored, then a message carrying " HTTP.." whose
\* URL serves HTML is handled, and the record is as before.
C9_Witness ==
    /\ variant = "multi"
    /\ CallEnded
    /\ Routed
    /\ call.payload = P_URL_UP
    /\ call.remote = R_HTML
    /\ call.key = <<"cam1", "person">>
    /\ accepted[<<"cam1", "person">>] = P_RAW4
    /\ Len(RecordOf(<<"cam1", "person">>)) = 1

\* C10 (as claimed): in the multi-topic variant a routed message with a
\* URL-shaped payload whose fetch returns a JPEG body ends with the fetched
\* bytes stored under (cam, obj) and the broadcast done.
C10_FetchedJpegStored ==
    variant = "multi" /\ CallEnded /\ Routed /\ IsUrlShaped(call.payload)
        /\ call.remote = R_JPEG
    => /\ call.ok = "True"
       /\ Len(RecordOf(call.key)) = 1
       /\ RecordOf(call.key)[1].img = call.remote

\* C11 (as claimed): on_message returns for every message: no exception
\* leaves the handler, and the network thread goes on to the next message.
C11_OnMessageReturns ==
    /\ mqtt_pc # "dead"
    /\ InCall => call.ok # "NameError"

\* C12: whenever _lock is free, the image and the timestamp of every
\* record are those of one upsert (in the single-topic variant the two
\* globals are the image of the payload last stored and the clock reading
\* of that store), and image() builds its 200 answer of the bytes and the
\* timestamp of the record as it is while the lock is free.
C12_NoTornRead ==
    /\ [](_lock = "none" =>
            \A k \in KeySpace :
                RecordOf(k) # <<>> =>
                    /\ IsImageOf(RecordOf(k)[1].img, accepted[k])
                    /\ variant = "single" => RecordOf(k)[1].ts = now)
    /\ [][http = NoResp /\ http'.route = "image" /\ http'.status = 200 =>
            LET r == RecordOf(http'.key) IN
            /\ _lock = "none"
            /\ Len(r) = 1
            /\ http'.body = r[1].img
            /\ http'.hdr = str(r[1].ts)
            /\ IsImageOf(http'.body, accepted[http'.key])
            /\ variant = "single" => http'.hdr = str(now)]_vars

\* C12 happens: in the single-topic variant image() has answered with the
\* whole earlier record, and the writer is now between its two assignments
\* of a different image.
C12_Witness ==
    /\ variant = "single"
    /\ http.route = "image"
    /\ http.status = 200
    /\ http.body = P_RAW3
    /\ accepted[SINGLE] = P_B64_3
    /\ mqtt_pc = "write_ts"
    /\ _last_image = P_RAW4
    /\ http.hdr = str(_last_image_ts)

\* C13: image() answers 204 with no body for a key without a record and
\* 200 for a key with one; status() answers 200 with the store as it is:
\* num_images is the number of keys stored (0 before any store) in the
\* multi-topic variant, has_image tells whether an image has been stored
\* in the single-topic variant.
C13_EmptyAnswerAndStatus ==
    [][http = NoResp /\ http' # NoResp =>
        /\ http'.status \in {200, 204}
        /\ http'.route = "image" =>
              IF RecordOf(http'.key) = <<>>
              THEN /\ http'.status = 204
                   /\ http'.body = <<>>
                   /\ accepted[http'.key] = <<>>
              ELSE /\ http'.status = 200
                   /\ http'.body # <<>>
        /\ http'.route = "status" =>
              /\ http'.status = 200
              /\ variant = "multi" =>
                    /\ http'.json.num_images
                          = Cardinality({k \in KeySpace : accepted[k] # <<>>})
                    /\ http'.json.num_images = 0 <=> nUpserts = 0
              /\ variant = "single" =>
                    /\ http'.json.has_image <=> nUpserts > 0
                    /\ http'.json.has_image <=> accepted[SINGLE] # <<>>]_vars

\* C13 happens: image() has answered 204 for a key without a record while
\* another key has one.
C13_Witness ==
    /\ variant = "multi"
    /\ http.route = "image"
    /\ http.key = <<"cam3", "dog">>
    /\ http.status = 204
    /\ accepted[<<"cam1", "person">>] # <<>>
    /\ Len(_latest_images) = 1

\* C14 (as claimed): a subscription emits one event as soon as it is
\* established, with no store change needed; after that a signal is put on
\* its queue exactly for the upserts that happen while it is registered,
\* one each, and each signal taken becomes one event.
C14_OneEventPerUpsert ==
    /\ [][\A c \in Clients :
            /\ sse_pc[c] = "subscribe" /\ sse_pc'[c] # "subscribe" =>
                  sse_pc'[c] = "yield" /\ UNCHANGED storeVars
            /\ queue'[c] > queue[c] =>
                  owed[c] = "owed" /\ queue'[c] = queue[c] + 1
            /\ sse_pc[c] = "get" /\ sse_pc'[c] = "yield" =>
                  queue'[c] = queue[c] - 1]_vars
    /\ [](mqtt_pc = "put" /\ todo = <<>> =>
            \A c \in Range(_sse_clients) : owed[c] # "owed")

\* C15: a signal is put only on the queue of a listener that is in
\* _sse_clients before and after the put; the list notify_sse_clients
\* goes through holds registered listeners only; and a listener whose
\* removal is done is not in the list and has nothing put on its queue.
C15_NoPutAfterRemoval ==
    /\ [][\A c \in Clients :
            queue'[c] > queue[c] =>
                /\ c \in Range(_sse_clients)
                /\ c \in Range(_sse_clients')
                /\ sse_pc[c] \in {"yield", "get", "finally"}]_vars
    /\ [](/\ \A i \in 1..Len(todo) : todo[i] \in Range(_sse_clients)
          /\ \A c \in Clients :
                sse_pc[c] = "closed" =>
                    c \notin Range(_sse_clients) /\ queue[c] = 0)

\* C15 happens: a listener was removed between the store write and the
\* broadcast and got nothing, while the broadcast has put its signal on
\* the queue of a listener that waits for the lock to remove itself.
C15_Witness ==
    /\ mqtt_pc = "put"
    /\ todo = <<>>
    /\ owed["c1"] = "gone"
    /\ sse_pc["c1"] = "closed"
    /\ queue["c1"] = 0
    /\ sse_pc["c2"] = "finally"
    /\ queue["c2"] = 1
    /\ _sse_clients = <<"c2">>

\* C16 (as claimed): once the connection of a registered listener is
\* closed, its queue is eventually out of _sse_clients, whether or not a
\* further image comes.
C16_ClosedListenerRemoved ==
    \A c \in Clients :
        (~conn[c] /\ c \in Range(_sse_clients)) ~> (c \notin Range(_sse_clients))

\* C17 (as claimed): if client.connect raises, main() aborts and no HTTP
\* request is ever answered; if the broker refuses the connection (rc # 0
\* in on_connect), app.run is not reached either.
C17_NoHttpWithoutMqtt ==
    /\ boot = "aborted" => http = NoResp /\ connack = "none"
    /\ connack = "refused" => boot # "serving" /\ http = NoResp

\* C18 (as claimed): storing again the message that was last stored for
\* its key (same topic, same payload) leaves the whole store, bytes and
\* timestamps, as it was.
C18_RepeatChangesNothing ==
    [][/\ variant = "multi" \/ MQTT_TOPIC = SUB_DEFAULT
       /\ mqtt_pc \in {"write", "write_ts"}
       /\ accepted[call.key] = call.payload
       => UNCHANGED storeVars]_vars

\* C18 (amended): storing again the payload that was last stored for its
\* key leaves the keys, their order, the bytes of every key and the
\* timestamps of the other keys as they were; the timestamp of the key
\* itself is set to the clock reading of this store.
C18_RepeatRenewsTimestampOnly ==
    [][(mqtt_pc \in {"write", "write_ts"}) /\ accepted[call.key] = call.payload =>
        /\ _last_image' = _last_image
        /\ Len(_latest_images') = Len(_latest_images)
        /\ \A i \in 1..Len(_latest_images) :
              /\ _latest_images'[i].key = _latest_images[i].key
              /\ _latest_images'[i].img = _latest_images[i].img
              /\ _latest_images[i].key # call.key =>
                    _latest_images'[i].ts = _latest_images[i].ts
        /\ \A k \in KeySpace :
              /\ RecordOf(k) = <<>> <=> RecordOf(k)' = <<>>
              /\ k = call.key /\ mqtt_pc' # "write_ts" =>
                    LET r == RecordOf(k)' IN r[1].ts = now']_vars

\* C18 happens: in the single-topic variant the payload last stored is
\* being stored again, its image written and its timestamp about to be.
C18_Witness ==
    /\ variant = "single"
    /\ mqtt_pc = "write_ts"
    /\ accepted[SINGLE] = P_B64_4
    /\ call.payload = P_B64_4
    /\ _last_image = P_RAW4
    /\ _last_image_ts < MaxTime
    /\ nUpserts = 2

\* C19: no step removes a record: a key that has a record keeps one, the
\* set of stored keys only grows, and the image slot of the single-topic
\* variant, once filled, is never empty again.
C19_NoEntryRemoved ==
    [][/\ \A k \in KeySpace : RecordOf(k) # <<>> => RecordOf(k)' # <<>>
       /\ {_latest_images[i].key : i \in 1..Len(_latest_images)}
             \subseteq {_latest_images'[i].key : i \in 1..Len(_latest_images')}
       /\ Len(_latest_images') >= Len(_latest_images)
       /\ _last_image # <<>> => _last_image' # <<>>]_vars

\* C19 happens: two keys are stored, one of them overwritten, and a message
\* with an empty payload on a stored key has been rejected since.
C19_Witness ==
    /\ variant = "multi"
    /\ nUpserts = 3
    /\ Len(_latest_images) = 2
    /\ mqtt_pc = "return"
    /\ call.payload = P_EMPTY
    /\ call.ok = "False"
    /\ RecordOf(call.key) # <<>>

\* C20: no state has _lock and _sse_clients_lock held together; a lock
\* that is held is held by the MQTT thread at a place where it goes on
\* without waiting for anything, and is released; a generator waiting for
\* _sse_clients_lock to add or remove its queue gets it.
C20_NoDeadlock ==
    /\ [](~(_lock # "none" /\ _sse_clients_lock # "none"))
    /\ [](_lock # "none" => mqtt_pc = "write")
    /\ [](_sse_clients_lock # "none" => mqtt_pc = "put")
    /\ (_lock # "none") ~> (_lock = "none")
    /\ (_sse_clients_lock # "none") ~> (_sse_clients_lock = "none")
    /\ \A c \in Clients :
          /\ (sse_pc[c] = "subscribe") ~> (c \in Range(_sse_clients))
          /\ (sse_pc[c] = "finally") ~> (sse_pc[c] = "closed")

\* C20 happens: the broadcast holds _sse_clients_lock while a generator
\* waits for it to remove its queue, and gallery() has read the two
\* records of the store in the meantime.
C20_Witness ==
    /\ _sse_clients_lock = "mqtt"
    /\ _lock = "none"
    /\ mqtt_pc = "put"
    /\ sse_pc["c1"] = "finally"
    /\ _sse_clients = <<"c1">>
    /\ http.route = "gallery"
    /\ Len(http.json.images) = 2
    /\ nUpserts = 2

\* C21 (as claimed): notify_sse_clients goes through its list without
\* waiting for a listener, every put adds one item to the queue it is made
\* on and none is lost, each listener registered when the list is copied
\* is put to once, and the items pending on a queue are the upserts done
\* since its registration less the items taken: an item is added only for
\* an upsert written while the listener was registered, and removed only
\* by the listener's q.get().
C21_BroadcastNeverDrops ==
    /\ [](mqtt_pc = "put" =>
            /\ \A i, j \in 1..Len(todo) : todo[i] = todo[j] => i = j
            /\ \A i \in 1..Len(todo) : todo[i] \in Range(_sse_clients))
    /\ [][(mqtt_pc = "notify") /\ mqtt_pc' = "put" => todo' = _sse_clients]_vars
    /\ [][(mqtt_pc = "put") /\ todo # <<>> /\ todo' # todo =>
            /\ todo' = Tail(todo)
            /\ queue' = [queue EXCEPT ![Head(todo)] = @ + 1]
            /\ UNCHANGED sse_pc]_vars
    /\ [][\A c \in Clients :
            /\ queue'[c] > queue[c] => owed[c] = "owed"
            /\ queue'[c] < queue[c] =>
                  \/ sse_pc[c] = "get" /\ queue'[c] = queue[c] - 1
                  \/ sse_pc'[c] = "closed"]_vars

\* C22: when a signal is put on a listener's queue, the record of the
\* upsert that is being broadcast is in the store under its key, written
\* and with _lock released; from a stored payload on, every key that had a
\* payload stored has the record of the payload last stored for it, so a
\* listener holding or having taken a signal finds the store not empty and
\* gallery() lists every key stored so far.
C22_StoreBeforeSignal ==
    /\ [][\A c \in Clients :
            queue'[c] > queue[c] =>
                /\ mqtt_pc = "put"
                /\ _lock = "none"
                /\ accepted[call.key] = call.payload
                /\ LET r == dict_get(_latest_images, call.key) IN
                   /\ Len(r) = 1
                   /\ r[1].img = call.img
                   /\ r[1].ts = now
                   /\ IsImageOf(r[1].img, call.payload)]_vars
    /\ [](\A c \in Clients : queue[c] > 0 => _latest_images # <<>>)
    /\ [](_lock = "none" =>
            \A k \in QueryKeys :
                accepted[k] # <<>> =>
                    /\ Len(dict_get(_latest_images, k)) = 1
                    /\ IsImageOf(dict_get(_latest_images, k)[1].img, accepted[k]))
    /\ [][(http = NoResp) /\ http'.route = "gallery" =>
            \A k \in QueryKeys :
                accepted[k] # <<>> =>
                    \E i \in 1..Len(http'.json.images) :
                        <<http'.json.images[i].cam, http'.json.images[i].obj>> = k]_vars

\* C22 happens: the second upsert has been broadcast to a listener that
\* waits in q.get(), its record is in the store, and gallery() has then
\* listed both keys.
C22_Witness ==
    /\ mqtt_pc = "return"
    /\ call.ok = "True"
    /\ nUpserts = 2
    /\ sse_pc["c1"] = "get"
    /\ queue["c1"] = 1
    /\ Len(dict_get(_latest_images, call.key)) = 1
    /\ dict_get(_latest_images, call.key)[1].img = call.img
    /\ http.route = "gallery"
    /\ Len(http.json.images) = 2
    /\ http.json.latest # <<>>

====
